---- MODULE Spec2Model ----
(***************************************************************************)
(* cli-batteries: the logging set-up (src/src/logging.rs) and the OTLP     *)
(* log-record formatter (src/src/trace/otlp_format.rs).                    *)
(*                                                                         *)
(* Strings whose prefixes matter (targets, package names) are sequences of *)
(* one-character strings.  A filter expression is the sequence of its      *)
(* comma-separated directives, each already split at '='.                  *)
(***************************************************************************)
EXTENDS Integers, Sequences, FiniteSets, TLC

VARIABLES
    \* ---- src/src/logging.rs ----
    options,            \* the Options of the most recent Options::init call
    version,            \* the Version of the most recent Options::init call
    verbosity,          \* local `verbosity` of the most recent init call
    log_filter,         \* local `log_filter` of the most recent init call
    targets,            \* local `targets` of the most recent init call
    initResults,        \* what each init call so far returned, oldest first
    FLAME_FLUSH_GUARD,  \* the OnceCell: "unset", "None" or "Some"
    subscriber,         \* the global default subscriber, NoSubscriber if none
    logTracer,          \* TRUE once LogTracer is the `log` crate's logger
    flameOpens,         \* number of flame files created by FlameLayer::with_file
    flameBuf,           \* records held in the guard's BufWriter
    flameFile,          \* records written through to the guard's File
    flushCount,         \* number of FlushGuard::flush calls made by shutdown
    shutdownResult,     \* what the most recent shutdown call returned
    nInit,              \* number of init calls so far
    nShutdown,          \* number of shutdown calls so far
    lastOp,             \* the operation that produced this state
    dispatched,         \* the most recent event dispatch, NoDispatch if none
    \* ---- src/src/trace/otlp_format.rs ----
    spans,              \* the live spans, outermost first
    fmtIn,              \* the event most recently given to format_event
    fmtOut              \* what format_event wrote / returned for it

logVars == <<options, version, verbosity, log_filter, targets, initResults,
             FLAME_FLUSH_GUARD, subscriber, logTracer, flameOpens, flameBuf,
             flameFile, flushCount, shutdownResult, nInit, nShutdown, lastOp,
             dispatched>>

otlpVars == <<spans, fmtIn, fmtOut>>

vars == <<options, version, verbosity, log_filter, targets, initResults,
          FLAME_FLUSH_GUARD, subscriber, logTracer, flameOpens, flameBuf,
          flameFile, flushCount, shutdownResult, nInit, nShutdown, lastOp,
          dispatched, spans, fmtIn, fmtOut>>

(***************************************************************************)
(* Bounds                                                                  *)
(***************************************************************************)
MaxVerbose == 6
MaxDirectives == 2
MaxTargetLen == 2
MaxInitCalls == 2
MaxShutdownCalls == 2
MaxFlameBuf == 1

(***************************************************************************)
(* Sequence helpers                                                        *)
(***************************************************************************)
SeqsUpTo(S, n) == UNION { [1..k -> S] : k \in 0..n }

Range(s) == { s[i] : i \in 1..Len(s) }

starts_with(s, p) ==
    /\ Len(p) <= Len(s)
    /\ \A i \in 1..Len(p) : s[i] = p[i]

\* str::replace('-', "_")
replace(s) == [i \in 1..Len(s) |-> IF s[i] = "-" THEN "_" ELSE s[i]]

\* byte values of the characters used, for String's lexicographic Ord
CharRank == [c \in {"-", "_", "a", "b"} |->
                CASE c = "-" -> 45 [] c = "_" -> 95 [] c = "a" -> 97 [] c = "b" -> 98]

RECURSIVE StrLess(_, _)
StrLess(s, t) ==
    IF Len(t) = 0 THEN FALSE
    ELSE IF Len(s) = 0 THEN TRUE
    ELSE IF s[1] = t[1] THEN StrLess(Tail(s), Tail(t))
    ELSE CharRank[s[1]] < CharRank[t[1]]

(***************************************************************************)
(* Levels.  tracing orders LevelFilter by verbosity:                       *)
(* OFF < ERROR < WARN < INFO < DEBUG < TRACE.                              *)
(***************************************************************************)
Levels == {"ERROR", "WARN", "INFO", "DEBUG", "TRACE"}

LevelFilters == Levels \cup {"OFF"}

Rank(l) ==
    CASE l = "OFF" -> 0 [] l = "ERROR" -> 1 [] l = "WARN" -> 2
      [] l = "INFO" -> 3 [] l = "DEBUG" -> 4 [] l = "TRACE" -> 5

(***************************************************************************)
(* tracing_subscriber::filter::Targets as used by Options::init: a vector  *)
(* of directives (optional target, level) kept sorted most specific first. *)
(***************************************************************************)
NoTarget == [some |-> FALSE, name |-> <<>>]

SomeTarget(t) == [some |-> TRUE, name |-> t]

Directive(t, l) == [target |-> t, level |-> l]

\* Ord of a directive: by target presence and length, then by the target
\* text, the whole reversed so that the more specific directive sorts first.
DirectiveLess(d, e) ==
    LET dt == d.target
        et == e.target
    IN  IF dt.some # et.some THEN dt.some
        ELSE IF ~dt.some THEN FALSE
        ELSE IF Len(dt.name) # Len(et.name) THEN Len(dt.name) > Len(et.name)
        ELSE StrLess(et.name, dt.name)

\* DirectiveSet::add: binary_search, replace the equal directive (same
\* target) or insert at the position that keeps the vector sorted.
Add(ds, d) ==
    IF \E i \in 1..Len(ds) : ds[i].target = d.target
    THEN [i \in 1..Len(ds) |-> IF ds[i].target = d.target THEN d ELSE ds[i]]
    ELSE LET k == Cardinality({i \in 1..Len(ds) : DirectiveLess(ds[i], d)})
         IN  SubSeq(ds, 1, k) \o <<d>> \o SubSeq(ds, k + 1, Len(ds))

RECURSIVE Extend(_, _)
Extend(ds, more) ==
    IF more = <<>> THEN ds ELSE Extend(Add(ds, Head(more)), Tail(more))

\* Targets::new()
NewTargets == <<>>

with_default(ds, l) == Add(ds, Directive(NoTarget, l))

with_target(ds, t, l) == Add(ds, Directive(SomeTarget(t), l))

\* A mutation of with_targets: a directive already present wins.
with_targets_keep_existing(ds, other) ==
    Extend(other, ds)

\* Targets::with_targets: extend self with the other's directives.
with_targets(ds, other) ==
    Extend(ds, other)

cares_about_target(d, t) ==
    d.target.some => starts_with(t, d.target.name)

\* Targets as a filter: the first (most specific) directive that cares about
\* the target decides; with no such directive the pair is rejected.
would_enable(ds, t, l) ==
    LET m == {i \in 1..Len(ds) : cares_about_target(ds[i], t)}
    IN  /\ m # {}
        /\ LET first == CHOOSE i \in m : \A j \in m : i <= j
           IN  Rank(ds[first].level) >= Rank(l)

(***************************************************************************)
(* Filter expressions: "a,b=debug,info" is the sequence of its directives. *)
(*   level        : a bare level            ("info")                       *)
(*   target       : a bare target           ("foo")                        *)
(*   target=level : a target with a level   ("foo=debug")                  *)
(*   badlevel     : target=<not a level>    ("foo=bogus")                  *)
(*   toomany      : more than one '='       ("foo=info=x")                 *)
(* The empty string is the empty sequence.                                 *)
(***************************************************************************)
DirTargets == { <<"a">>, <<"a", "_">>, <<"b">> }

DirLevels == {"OFF", "DEBUG"}

Token(k, t, l) == [kind |-> k, target |-> t, level |-> l]

Tokens ==
    { Token("level", <<>>, l) : l \in DirLevels }
    \cup { Token("target", t, "TRACE") : t \in DirTargets }
    \cup { Token("target=level", t, l) : t \in DirTargets, l \in DirLevels }
    \cup { Token("badlevel", <<"a">>, "OFF"), Token("toomany", <<"a">>, "OFF") }

Expressions(n) == SeqsUpTo(Tokens, n)

\* Result<Targets, _>: ok with the value, or an error (value unused)
OkTargets(ds) == [ok |-> TRUE, value |-> ds]

ErrTargets == [ok |-> FALSE, value |-> <<>>]

\* StaticDirective::from_str succeeds on these forms
Parses(tok) == tok.kind \in {"target=level", "level", "target"}

\* StaticDirective::from_str
ParseDirective(tok) ==
    CASE tok.kind = "target=level" -> Directive(SomeTarget(tok.target), tok.level)
      [] tok.kind = "level"        -> Directive(NoTarget, tok.level)
      [] OTHER                     -> Directive(SomeTarget(tok.target), "TRACE")

\* Targets::from_str: split at ',', parse every directive, fail on the first
\* one that does not parse, collect the others into a directive set.
ParseTargets(s) ==
    IF \E i \in 1..Len(s) : ~Parses(s[i])
    THEN ErrTargets
    ELSE OkTargets(Extend(NewTargets, [i \in 1..Len(s) |-> ParseDirective(s[i])]))

\* A mutation of ParseLogFilter: the empty string is parsed like any other,
\* giving the bare target "" at TRACE.
ParseLogFilterNoEmptyCheck(s) ==
    IF s = <<>> THEN OkTargets(<<Directive(SomeTarget(<<>>), "TRACE")>>)
    ELSE ParseTargets(s)

\* logging.rs 114-120: the local `log_filter`, or the error `?` returns
ParseLogFilter(s) ==
    IF s = <<>> THEN OkTargets(NewTargets) ELSE ParseTargets(s)

\* A mutation of VerbosityLevels: -vv leaves the application at INFO.
VerbosityLevelsOffByOne(n) ==
    CASE n = 0 -> <<"ERROR", "INFO">>
      [] n = 1 -> <<"INFO", "INFO">>
      [] n = 2 -> <<"INFO", "INFO">>
      [] n = 3 -> <<"INFO", "DEBUG">>
      [] n = 4 -> <<"INFO", "TRACE">>
      [] OTHER -> <<"DEBUG", "TRACE">>

\* logging.rs 101-108: (all, app)
VerbosityLevels(n) ==
    CASE n = 0 -> <<"ERROR", "INFO">>
      [] n = 1 -> <<"INFO", "INFO">>
      [] n = 2 -> <<"INFO", "DEBUG">>
      [] n = 3 -> <<"INFO", "TRACE">>
      [] n = 4 -> <<"DEBUG", "TRACE">>
      [] OTHER -> <<"TRACE", "TRACE">>

\* logging.rs 100-113
VerbosityTargets(n, ver) ==
    LET all == VerbosityLevels(n)[1]
        app == VerbosityLevels(n)[2]
    IN  with_target(
            with_target(with_default(NewTargets, all), replace(ver.pkg_name), app),
            replace(ver.crate_name), app)

(***************************************************************************)
(* The composed subscriber (logging.rs 124-153).                           *)
(***************************************************************************)
NoSubscriber == [installed |-> FALSE, flame |-> FALSE, filter |-> NewTargets]

Subscriber(flame, filter) == [installed |-> TRUE, flame |-> flame, filter |-> filter]

\* The layers in the order `with` adds them; otlp and log_format carry
\* `.with_filter(targets)`, the others carry no filter of their own.
Layers(sub) ==
    <<[name |-> "ErrorLayer", filtered |-> FALSE]>>
    \o (IF sub.flame THEN <<[name |-> "flame", filtered |-> FALSE]>> ELSE <<>>)
    \o <<[name |-> "tokio_console", filtered |-> FALSE],
         [name |-> "otlp", filtered |-> TRUE],
         [name |-> "log_format", filtered |-> TRUE]>>

\* What a layer's on_event can come to.  The OTLP formatter returns
\* fmt::Error (otlp_format.rs 120, 151, 175) or panics on its `expect`
\* (line 150); the bytes it produced may fail to reach the sink.
Outcomes(name) ==
    CASE name = "otlp"       -> {"Ok", "FormatError", "WriteError", "Panic"}
      [] name = "log_format" -> {"Ok", "WriteError"}
      [] OTHER               -> {"Ok"}

OutcomeChoices == [{"otlp", "log_format"} -> {"Ok", "FormatError", "WriteError", "Panic"}]

ValidOutcomes(oc) == \A n \in DOMAIN oc : oc[n] \in Outcomes(n)

AllOk == [n \in {"otlp", "log_format"} |-> "Ok"]

OutcomeOf(oc, name) == IF name \in DOMAIN oc THEN oc[name] ELSE "Ok"

\* A mutation of Continues: any failure of a layer ends the dispatch.
ContinuesOnlyAfterOk(outcome) ==
    outcome = "Ok"

\* on_event returns (): an Err of format_event or of the write stays inside
\* the layer; only a panic unwinds through the layers after it.
Continues(outcome) ==
    outcome # "Panic"

\* The per-layer filter of layer ly accepts the event.
Accepts(sub, ly, ev) ==
    would_enable(sub.filter, ev.target, ev.level)

\* With per-layer filters the event is enabled when some filtered layer
\* accepts it; a layer without a filter of its own then sees it too.
EventEnabled(sub, ev) ==
    \E i \in 1..Len(Layers(sub)) :
        Layers(sub)[i].filtered /\ Accepts(sub, Layers(sub)[i], ev)

RECURSIVE RunLayers(_, _, _, _, _)
RunLayers(sub, ev, oc, i, acc) ==
    IF i > Len(Layers(sub)) THEN [invoked |-> acc, completed |-> TRUE]
    ELSE LET ly == Layers(sub)[i]
         IN  IF ly.filtered /\ ~Accepts(sub, ly, ev)
             THEN RunLayers(sub, ev, oc, i + 1, acc)
             ELSE LET o   == OutcomeOf(oc, ly.name)
                      now == Append(acc, [layer |-> ly.name, outcome |-> o])
                  IN  IF Continues(o)
                      THEN RunLayers(sub, ev, oc, i + 1, now)
                      ELSE [invoked |-> now, completed |-> FALSE]

NoEvent == [target |-> <<>>, level |-> "OFF"]

NoDispatch == [event |-> NoEvent, invoked |-> <<>>, completed |-> FALSE]

\* Dispatch of one event to the composed subscriber.
DispatchTo(sub, ev, oc) ==
    IF EventEnabled(sub, ev)
    THEN LET r == RunLayers(sub, ev, oc, 1, <<>>)
         IN  [event |-> ev, invoked |-> r.invoked, completed |-> r.completed]
    ELSE [event |-> ev, invoked |-> <<>>, completed |-> TRUE]

(***************************************************************************)
(* Options::init (logging.rs 98-175)                                       *)
(***************************************************************************)
\* module path of the `info!` at logging.rs 161 (cli_batteries::logging)
LoggingTarget == <<"b">>

VersionEvent == [target |-> LoggingTarget, level |-> "INFO"]

Versions ==
    { [pkg_name |-> <<"a", "-">>, crate_name |-> <<"a", "_">>],
      [pkg_name |-> <<"a">>,      crate_name |-> <<"a", "_">>] }

NoOptions == [verbose |-> 0, log_filter |-> <<>>, trace_flame |-> FALSE]

NoVersion == [pkg_name |-> <<>>, crate_name |-> <<>>]

\* Outcomes of the fallible calls init makes outside this crate.
IoChoices ==
    [flameOpenOk : BOOLEAN, otlpOk : BOOLEAN, parallelismOk : BOOLEAN,
     render : {oc \in OutcomeChoices : ValidOutcomes(oc)}]

IoOk == [flameOpenOk |-> TRUE, otlpOk |-> TRUE, parallelismOk |-> TRUE,
         render |-> AllOk]

\* How far init gets and what it returns.
InitOutcome(opts, lf, t, io) ==
    CASE ~lf.ok                               -> "ErrParse"         \* 119
      [] opts.trace_flame /\ ~io.flameOpenOk  -> "ErrFlameOpen"     \* 132
      [] FLAME_FLUSH_GUARD # "unset"          -> "ErrGuardSet"      \* 140
      [] ~io.otlpOk                           -> "ErrOtlp"          \* 148
      [] subscriber.installed                 -> "ErrGlobalDefault" \* 153
      [] logTracer                            -> "ErrLogTracer"     \* 158
      [] /\ EventEnabled(Subscriber(opts.trace_flame, t), VersionEvent)
         /\ ~io.parallelismOk                 -> "ErrParallelism"   \* 166
      [] OTHER                                -> "Ok"

OptionsInit(opts, ver, io) ==
    LET v   == VerbosityTargets(opts.verbose, ver)
        lf  == ParseLogFilter(opts.log_filter)
        t   == IF lf.ok THEN with_targets(v, lf.value) ELSE NewTargets
        r   == InitOutcome(opts, lf, t, io)
        sub == Subscriber(opts.trace_flame, t)
        opened    == r \notin {"ErrParse", "ErrFlameOpen"} /\ opts.trace_flame
        guardSet  == r \notin {"ErrParse", "ErrFlameOpen", "ErrGuardSet"}
        installed == guardSet /\ r \notin {"ErrOtlp", "ErrGlobalDefault"}
        traced    == installed /\ r # "ErrLogTracer"
        logged    == r = "Ok" /\ EventEnabled(sub, VersionEvent)
    IN  /\ nInit < MaxInitCalls
        /\ nInit' = nInit + 1
        /\ options' = opts
        /\ version' = ver
        /\ verbosity' = v
        /\ log_filter' = lf
        /\ targets' = t
        /\ initResults' = Append(initResults, r)
        /\ flameOpens' = IF opened THEN flameOpens + 1 ELSE flameOpens
        /\ FLAME_FLUSH_GUARD' =
             IF guardSet THEN (IF opts.trace_flame THEN "Some" ELSE "None")
             ELSE FLAME_FLUSH_GUARD
        /\ subscriber' = IF installed THEN sub ELSE subscriber
        /\ logTracer' = (logTracer \/ traced)
        /\ dispatched' = IF logged THEN DispatchTo(sub, VersionEvent, io.render)
                         ELSE dispatched
        /\ lastOp' = "init"
        /\ UNCHANGED <<flameBuf, flameFile, flushCount, shutdownResult, nShutdown>>
        /\ UNCHANGED otlpVars

(***************************************************************************)
(* The flame layer records a span enter/exit into the guard's BufWriter.   *)
(***************************************************************************)
FlameRecord ==
    /\ subscriber.installed
    /\ subscriber.flame
    /\ flameBuf < MaxFlameBuf
    /\ flameBuf' = flameBuf + 1
    /\ lastOp' = "record"
    /\ UNCHANGED <<options, version, verbosity, log_filter, targets, initResults,
                   FLAME_FLUSH_GUARD, subscriber, logTracer, flameOpens,
                   flameFile, flushCount, shutdownResult, nInit, nShutdown,
                   dispatched>>
    /\ UNCHANGED otlpVars

(***************************************************************************)
(* shutdown (logging.rs 178-185)                                           *)
(***************************************************************************)
\* A mutation of HasFlushGuard: only the outer Option is looked at.
HasFlushGuardOuterOnly(cell) ==
    cell # "unset"

\* logging.rs 179-180: the cell is set and holds Some(flush_guard)
HasFlushGuard(cell) ==
    cell = "Some"

Shutdown(flushOk) ==
    /\ nShutdown < MaxShutdownCalls
    /\ nShutdown' = nShutdown + 1
    /\ IF HasFlushGuard(FLAME_FLUSH_GUARD)
       THEN /\ flushCount' = flushCount + 1
            /\ IF flushOk
               THEN /\ flameFile' = flameFile + flameBuf
                    /\ flameBuf' = 0
                    /\ shutdownResult' = "Ok"
               ELSE /\ UNCHANGED <<flameFile, flameBuf>>
                    /\ shutdownResult' = "ErrFlush"
       ELSE /\ UNCHANGED <<flushCount, flameFile, flameBuf>>
            /\ shutdownResult' = "Ok"
    /\ lastOp' = "shutdown"
    /\ UNCHANGED <<options, version, verbosity, log_filter, targets, initResults,
                   FLAME_FLUSH_GUARD, subscriber, logTracer, flameOpens, nInit,
                   dispatched>>
    /\ UNCHANGED otlpVars

(***************************************************************************)
(* An event emitted by the application reaches the installed subscriber.   *)
(***************************************************************************)
Dispatch(ev, oc) ==
    /\ subscriber.installed
    /\ dispatched' = DispatchTo(subscriber, ev, oc)
    /\ lastOp' = "dispatch"
    /\ UNCHANGED <<options, version, verbosity, log_filter, targets, initResults,
                   FLAME_FLUSH_GUARD, subscriber, logTracer, flameOpens, flameBuf,
                   flameFile, flushCount, shutdownResult, nInit, nShutdown>>
    /\ UNCHANGED otlpVars

(***************************************************************************)
(* OtlpFormatter::format_event (otlp_format.rs 40-178)                     *)
(*                                                                         *)
(* A JSON value is a string or a number.  A serde_json::Map is the set of  *)
(* its entries [k, v], one per key.  The fields of an event are the        *)
(* sequence of entries in the order the map hands them out.                *)
(***************************************************************************)
MaxDepth == 2
MaxFields == 2

Str(s) == [t |-> "str", s |-> s, n |-> 0]

Num(n) == [t |-> "num", s |-> "", n |-> n]

None == [some |-> FALSE, v |-> 0]

Some(x) == [some |-> TRUE, v |-> x]

NoStr == [some |-> FALSE, v |-> ""]

Entry(k, v) == [k |-> k, v |-> v]

Keys(m) == { e.k : e \in m }

Get(m, k) == (CHOOSE e \in m : e.k = k).v

\* Insertion that leaves a key already present alone.
InsertIfAbsent(m, k, v) ==
    IF k \in Keys(m) THEN m ELSE m \cup {Entry(k, v)}

\* serde_json::Map::insert: the new value replaces the old one
Insert(m, k, v) ==
    {e \in m : e.k # k} \cup {Entry(k, v)}

HexDigits == <<"0", "1", "2", "3", "4", "5", "6", "7",
               "8", "9", "a", "b", "c", "d", "e", "f">>

\* format_args!("{:0w$x}", n)
RECURSIVE Hex(_, _)
Hex(n, w) ==
    IF w = 0 THEN <<>>
    ELSE Append(Hex(n \div 16, w - 1), HexDigits[(n % 16) + 1])

\* format_args!("{}", n) for n >= 0
RECURSIVE Dec(_)
Dec(n) ==
    IF n < 10 THEN <<HexDigits[n + 1]>>
    ELSE Append(Dec(n \div 10), HexDigits[(n % 10) + 1])

\* otlp_format.rs 59-65
Severity(level) ==
    CASE level = "TRACE" -> [text |-> "TRACE", number |-> 1]
      [] level = "DEBUG" -> [text |-> "DEBUG", number |-> 5]
      [] level = "INFO"  -> [text |-> "INFO",  number |-> 9]
      [] level = "WARN"  -> [text |-> "WARN",  number |-> 13]
      [] OTHER           -> [text |-> "ERROR", number |-> 17]

\* The span the event belongs to as far as `event.parent()` and
\* `ctx.lookup_current()` tell (otlp_format.rs 50-53): index into spans, 0 if none.
ParentOrCurrent(sp, ev) ==
    IF ev.parent = "explicit" THEN ev.parentIdx ELSE Len(sp)

\* ctx.event_scope(): nothing for a root event, else the scope of the
\* explicit parent or of the current span; index of its first span, 0 if none.
ScopeStart(sp, ev) ==
    CASE ev.parent = "root"     -> 0
      [] ev.parent = "explicit" -> ev.parentIdx
      [] OTHER                  -> Len(sp)

\* A mutation of ResolveSpanId: no fallback to the tracing span id.
ResolveSpanIdNoFallback(sp, ev) ==
    LET i == ParentOrCurrent(sp, ev)
    IN  IF i = 0 THEN None ELSE sp[i].span_id

\* otlp_format.rs 58, 73-81
ResolveSpanId(sp, ev) ==
    LET i == ParentOrCurrent(sp, ev)
    IN  IF i = 0 THEN None
        ELSE IF sp[i].span_id.some THEN sp[i].span_id
        ELSE Some(sp[i].id)

\* A mutation of FindTraceId: the scope is searched from the root inwards.
FindTraceIdFromRoot(sp, i) ==
    LET has == {j \in 1..i : sp[j].trace_id.some}
    IN  IF has = {} THEN None
        ELSE sp[CHOOSE j \in has : \A k \in has : j <= k].trace_id

\* A mutation of FindTraceId: only the first span of the scope is looked at.
FindTraceIdDirectOnly(sp, i) ==
    IF i = 0 THEN None ELSE sp[i].trace_id

\* scope.find_map (otlp_format.rs 88-94): from span i towards the root, the
\* first span whose OtelData has a trace id.
RECURSIVE FindTraceId(_, _)
FindTraceId(sp, i) ==
    IF i = 0 THEN None
    ELSE IF sp[i].trace_id.some THEN sp[i].trace_id
    ELSE FindTraceId(sp, i - 1)

\* otlp_format.rs 85-96
ResolveTraceId(sp, ev) == FindTraceId(sp, ScopeStart(sp, ev))

ThreadIdDebug == "ThreadId(1)"

\* otlp_format.rs 100-117
SourceAttributes(ev, thread) ==
    LET a0 == {}
        a1 == IF ev.module_path.some
              THEN Insert(a0, "code.namespace", Str(ev.module_path.v)) ELSE a0
        a2 == IF ev.file.some
              THEN Insert(a1, "code.filepath", Str(ev.file.v)) ELSE a1
        a3 == IF ev.line.some
              THEN Insert(a2, "code.lineno", Num(ev.line.v)) ELSE a2
    IN  Insert(a3, "thread.name",
               Str(IF thread.some THEN thread.v ELSE ThreadIdDebug))

\* A mutation of RenameField: `log.target` passes through.
RenameFieldKeepTarget(k) ==
    CASE k = "message"         -> NoStr
      [] k = "log.file"        -> Some("code.filepath")
      [] k = "log.line"        -> Some("code.lineno")
      [] k = "log.module_path" -> Some("code.namespace")
      [] OTHER                 -> Some(k)

\* otlp_format.rs 123-136: the attribute key of an event field, if it has one
RenameField(k) ==
    CASE k = "message"         -> NoStr
      [] k = "log.file"        -> Some("code.filepath")
      [] k = "log.line"        -> Some("code.lineno")
      [] k = "log.module_path" -> Some("code.namespace")
      [] k = "log.target"      -> NoStr
      [] OTHER                 -> Some(k)

\* The keys used, in the byte order of str.
KeyOrder == <<"code.filepath", "code.lineno", "code.namespace", "log.file",
              "log.line", "log.module_path", "log.target", "message", "s",
              "thread.name", "x">>

KeyRank(k) == CHOOSE i \in 1..Len(KeyOrder) : KeyOrder[i] = k

\* serde_json::to_value(&event.field_map()) (otlp_format.rs 120): the fields
\* become a serde_json::Map, a BTreeMap, which hands its entries out by key.
RECURSIVE MapOrder(_)
MapOrder(fields) ==
    IF fields = <<>> THEN <<>>
    ELSE LET i == CHOOSE j \in 1..Len(fields) :
                      \A m \in 1..Len(fields) : KeyRank(fields[j].k) <= KeyRank(fields[m].k)
         IN  <<fields[i]>> \o MapOrder(SubSeq(fields, 1, i - 1) \o SubSeq(fields, i + 1, Len(fields)))

\* otlp_format.rs 122-137: attributes.extend over the event's fields
RECURSIVE ExtendWithFields(_, _)
ExtendWithFields(acc, fields) ==
    IF fields = <<>> THEN acc
    ELSE LET f == Head(fields)
             r == RenameField(f.k)
             a == IF r.some THEN Insert(acc.attributes, r.v, f.v) ELSE acc.attributes
             b == IF f.k = "message"
                  THEN (IF f.v.t = "str" THEN f.v.s ELSE "")  \* as_str().unwrap_or_default()
                  ELSE acc.body
         IN  ExtendWithFields([attributes |-> a, body |-> b], Tail(fields))

\* A mutation of ExtendWithMap: an attribute already present is kept.
RECURSIVE ExtendWithMapKeepExisting(_, _)
ExtendWithMapKeepExisting(attrs, m) ==
    IF m = {} THEN attrs
    ELSE LET e == CHOOSE x \in m : TRUE
         IN  ExtendWithMapKeepExisting(InsertIfAbsent(attrs, e.k, e.v), m \ {e})

\* attributes.extend(map) for a map (otlp_format.rs 153)
RECURSIVE ExtendWithMap(_, _)
ExtendWithMap(attrs, m) ==
    IF m = {} THEN attrs
    ELSE LET e == CHOOSE x \in m : TRUE
         IN  ExtendWithMap(Insert(attrs, e.k, e.v), m \ {e})

\* otlp_format.rs 141-145: the span whose fields are merged, 0 if none
SpanOfBoundary(sp, ev) ==
    IF ev.is_span /\ ev.parent = "explicit" THEN ev.parentIdx ELSE 0

NoOutput ==
    [status |-> "None", keys |-> <<>>, Timestamp |-> <<>>, TraceId |-> <<>>,
     SpanId |-> <<>>, severity |-> "", SeverityText |-> "", SeverityNumber |-> 0,
     Body |-> "", Attributes |-> {}]

Failed(status) == [NoOutput EXCEPT !.status = status]

\* otlp_format.rs 158-177: the line written
WriteJson(timestamp, trace_id, span_id, sev, body, attributes) ==
    [status |-> "Ok",
     keys |-> <<"Timestamp">>
              \o (IF trace_id.some THEN <<"TraceId">> ELSE <<>>)
              \o (IF span_id.some THEN <<"SpanId">> ELSE <<>>)
              \o <<"severity", "SeverityText", "SeverityNumber", "Body", "Attributes">>,
     Timestamp |-> Dec(timestamp),
     TraceId |-> IF trace_id.some THEN Hex(trace_id.v, 32) ELSE <<>>,
     SpanId |-> IF span_id.some THEN Hex(span_id.v, 16) ELSE <<>>,
     severity |-> sev.text,
     SeverityText |-> sev.text,
     SeverityNumber |-> sev.number,
     Body |-> body,
     Attributes |-> attributes]

\* The whole of format_event: what it leaves in the writer, or how it fails.
format_event(sp, ev, thread, timestamp, writeOk) ==
    LET span_id  == ResolveSpanId(sp, ev)
        trace_id == ResolveTraceId(sp, ev)
        merged   == ExtendWithFields(
                        [attributes |-> SourceAttributes(ev, thread), body |-> ""],
                        MapOrder(ev.fields))
        b        == SpanOfBoundary(sp, ev)
    IN  IF ~ev.serializable THEN Failed("Error")                        \* 120
        ELSE IF b # 0 /\ sp[b].formatted.kind = "missing" THEN Failed("Panic")  \* 150
        ELSE IF b # 0 /\ sp[b].formatted.kind = "notjson" THEN Failed("Error")  \* 151
        ELSE IF ~writeOk THEN Failed("Error")                           \* 175, 177
        ELSE WriteJson(timestamp, trace_id, span_id, Severity(ev.level), merged.body,
                       IF b # 0 /\ sp[b].formatted.kind = "object"
                       THEN ExtendWithMap(merged.attributes, sp[b].formatted.map)
                       ELSE merged.attributes)

(***************************************************************************)
(* The span stack of one execution context and the events formatted in it. *)
(***************************************************************************)
Object(m) == [kind |-> "object", map |-> m]

Missing == [kind |-> "missing", map |-> {}]

NotJson == [kind |-> "notjson", map |-> {}]

NonObject == [kind |-> "nonobject", map |-> {}]

NoInput ==
    [ev |-> [is_span |-> FALSE, parent |-> "none", parentIdx |-> 0, level |-> "OFF",
             module_path |-> NoStr, file |-> NoStr, line |-> None,
             fields |-> <<>>, serializable |-> TRUE],
     thread |-> NoStr, timestamp |-> 0, writeOk |-> TRUE]

\* A span is created and entered; the registry hands out the lowest free
\* id, the OpenTelemetry layer may have put a trace id and a span id into
\* its extensions, the fmt layer its formatted fields.
EnterSpan(ext, limit) ==
    /\ fmtIn = NoInput
    /\ Len(spans) < limit
    /\ spans' = Append(spans, [id |-> Len(spans) + 1, trace_id |-> ext.trace_id,
                                span_id |-> ext.span_id, formatted |-> ext.formatted])
    /\ fmtIn' = NoInput
    /\ fmtOut' = NoOutput
    /\ UNCHANGED logVars

ExitSpan ==
    /\ fmtIn = NoInput
    /\ spans # <<>>
    /\ spans' = SubSeq(spans, 1, Len(spans) - 1)
    /\ fmtIn' = NoInput
    /\ fmtOut' = NoOutput
    /\ UNCHANGED logVars

\* The fmt layer hands one event at a time to format_event, with an empty
\* buffer to write into.
FormatEvent(ev, thread, timestamp, writeOk) ==
    /\ fmtIn = NoInput
    /\ ev.parent = "explicit" => ev.parentIdx \in 1..Len(spans)
    /\ ev.parent # "explicit" => ev.parentIdx = 0
    /\ fmtIn' = [ev |-> ev, thread |-> thread, timestamp |-> timestamp, writeOk |-> writeOk]
    /\ fmtOut' = format_event(spans, ev, thread, timestamp, writeOk)
    /\ UNCHANGED spans
    /\ UNCHANGED logVars

\* The fmt layer has dealt with what format_event returned and clears the
\* buffer for the next event.
EventDone ==
    /\ fmtIn # NoInput
    /\ fmtIn' = NoInput
    /\ fmtOut' = NoOutput
    /\ UNCHANGED spans
    /\ UNCHANGED logVars

(***************************************************************************)
(* Initial state: a fresh process, nothing initialised, no span entered.   *)
(***************************************************************************)
Init ==
    /\ options = NoOptions
    /\ version = NoVersion
    /\ verbosity = NewTargets
    /\ log_filter = OkTargets(NewTargets)
    /\ targets = NewTargets
    /\ initResults = <<>>
    /\ FLAME_FLUSH_GUARD = "unset"
    /\ subscriber = NoSubscriber
    /\ logTracer = FALSE
    /\ flameOpens = 0
    /\ flameBuf = 0
    /\ flameFile = 0
    /\ flushCount = 0
    /\ shutdownResult = "none"
    /\ nInit = 0
    /\ nShutdown = 0
    /\ lastOp = "none"
    /\ dispatched = NoDispatch
    /\ spans = <<>>
    /\ fmtIn = NoInput
    /\ fmtOut = NoOutput

(***************************************************************************)
(* Spec: the life cycle of the process-wide state -- init, the flame layer *)
(* recording, shutdown.                                                    *)
(***************************************************************************)
LifecycleExpressions ==
    { <<>>,
      <<Token("target=level", <<"a", "_">>, "OFF")>>,
      <<Token("badlevel", <<"a">>, "OFF")>>,
      <<Token("target", <<"b">>, "TRACE"), Token("toomany", <<"a">>, "OFF")>> }

LifecycleOptions ==
    [verbose : {2}, log_filter : LifecycleExpressions, trace_flame : BOOLEAN]

LifecycleVersion == [pkg_name |-> <<"a", "-">>, crate_name |-> <<"a", "_">>]

LifecycleIo ==
    {io \in IoChoices : io.render = AllOk}

Next ==
    \/ \E opts \in LifecycleOptions, io \in LifecycleIo :
          OptionsInit(opts, LifecycleVersion, io)
    \/ FlameRecord
    \/ \E flushOk \in BOOLEAN : Shutdown(flushOk)

Spec == Init /\ [][Next]_vars

(***************************************************************************)
(* SpecFilter: the filter Options::init builds on a fresh process, for     *)
(* every verbosity, version and filter expression within the bounds.       *)
(***************************************************************************)
FilterOptions ==
    [verbose : 0..MaxVerbose, log_filter : Expressions(MaxDirectives),
     trace_flame : {FALSE}]

NextFilter ==
    /\ nInit = 0
    /\ \E opts \in FilterOptions, ver \in Versions : OptionsInit(opts, ver, IoOk)

SpecFilter == Init /\ [][NextFilter]_vars

(***************************************************************************)
(* SpecDispatch: events dispatched to the subscriber a first init built.   *)
(***************************************************************************)
DispatchOptions ==
    [verbose : 0..MaxVerbose, log_filter : Expressions(1), trace_flame : BOOLEAN]

DispatchTargets == { <<"a", "_">>, <<"b">> }

DispatchEvents == [target : DispatchTargets, level : Levels]

NextDispatch ==
    \/ /\ nInit = 0
       /\ \E opts \in DispatchOptions : OptionsInit(opts, LifecycleVersion, IoOk)
    \/ \E ev \in DispatchEvents, oc \in {o \in OutcomeChoices : ValidOutcomes(o)} :
          Dispatch(ev, oc)

SpecDispatch == Init /\ [][NextDispatch]_vars

(***************************************************************************)
(* SpecOtlpIds: format_event over span stacks whose spans may carry        *)
(* OpenTelemetry trace and span ids.                                       *)
(***************************************************************************)
TraceIds == {1, 2}

OtelSpanIds == {10}

IdSpans ==
    [trace_id : {None} \cup {Some(i) : i \in TraceIds},
     span_id : {None} \cup {Some(i) : i \in OtelSpanIds},
     formatted : {Object({})}]

Threads == {NoStr, Some("main")}

Timestamps == {1700}

IdEvents ==
    [is_span : BOOLEAN, parent : {"contextual", "root", "explicit"},
     parentIdx : 0..(MaxDepth + 1), level : Levels,
     module_path : {Some("app::m")}, file : {Some("src/m.rs")}, line : {Some(7)},
     fields : {<<Entry("message", Str("hello"))>>}, serializable : BOOLEAN]

NextOtlpIds ==
    \/ \E ext \in IdSpans : EnterSpan(ext, MaxDepth)
    \/ ExitSpan
    \/ \E ev \in IdEvents, thread \in Threads, ts \in Timestamps, writeOk \in BOOLEAN :
          FormatEvent(ev, thread, ts, writeOk)
    \/ EventDone

SpecOtlpIds == Init /\ [][NextOtlpIds]_vars

(***************************************************************************)
(* SpecOtlpFields: format_event over the fields of the event and of the    *)
(* span whose boundary the event marks.                                    *)
(***************************************************************************)
FieldKeys == {"message", "log.file", "log.line", "log.module_path", "log.target",
              "code.filepath", "x"}

FieldValues == {Str("ev"), Num(42)}

\* the fields of an event in the order it declares them, no name twice
FieldLists ==
    {f \in SeqsUpTo([k : FieldKeys, v : FieldValues], MaxFields) :
        \A i, j \in 1..Len(f) : f[i].k = f[j].k => i = j}

SpanFields ==
    {Entry("x", Str("span")), Entry("code.filepath", Str("span")),
     Entry("thread.name", Str("span")), Entry("s", Num(3))}

FieldSpans ==
    [trace_id : {None}, span_id : {None},
     formatted : {Missing, NotJson, NonObject, Object(SpanFields)}]

FieldEvents ==
    [is_span : BOOLEAN, parent : {"contextual", "explicit"}, parentIdx : 0..1,
     level : {"INFO"},
     module_path : {Some("app::m")}, file : {Some("src/m.rs")}, line : {Some(7)},
     fields : FieldLists, serializable : {TRUE}]

NextOtlpFields ==
    \/ \E ext \in FieldSpans : EnterSpan(ext, 1)
    \/ ExitSpan
    \/ \E ev \in FieldEvents, ts \in Timestamps :
          FormatEvent(ev, Some("main"), ts, TRUE)
    \/ EventDone

SpecOtlpFields == Init /\ [][NextOtlpFields]_vars

(***************************************************************************)
(* Properties                                                              *)
(***************************************************************************)
EventTargets == SeqsUpTo({"a", "_"}, MaxTargetLen) \cup {<<"b">>, <<"b", "a">>}

\* init got as far as building `targets` (logging.rs 121)
InitBuiltFilter == nInit > 0 /\ log_filter.ok

Named(ds) == { d.target : d \in Range(ds) }

LevelFor(ds, tgt) == (CHOOSE d \in Range(ds) : d.target = tgt).level

Specificity(d) == IF d.target.some THEN Len(d.target.name) + 1 ELSE 0

\* the directives of D that match t and are as specific as any that does
Deciding(D, t) ==
    { d \in D : /\ cares_about_target(d, t)
                /\ \A e \in D : cares_about_target(e, t) => Specificity(e) <= Specificity(d) }

\* the expression's directives, and the verbosity directives for the targets
\* (or the default) the expression does not name
Effective ==
    Range(log_filter.value)
    \cup { d \in Range(verbosity) : d.target \notin Named(log_filter.value) }

VerbosityTable ==
    << <<"ERROR", "INFO">>, <<"INFO", "INFO">>, <<"INFO", "DEBUG">>,
       <<"INFO", "TRACE">>, <<"DEBUG", "TRACE">>, <<"TRACE", "TRACE">> >>

TableRow(n) == VerbosityTable[(IF n >= 5 THEN 5 ELSE n) + 1]

OwnTargets == { replace(version.pkg_name), replace(version.crate_name) }

\* C8: the verbosity filter has the default level and the level of the
\* application's package and crate targets that the table gives for the
\* verbosity count, and nothing else.
C8_VerbosityTable ==
    nInit > 0 =>
        /\ Named(verbosity) = {NoTarget} \cup { SomeTarget(t) : t \in OwnTargets }
        /\ Len(verbosity) = Cardinality(Named(verbosity))
        /\ LevelFor(verbosity, NoTarget) = TableRow(options.verbose)[1]
        /\ \A t \in OwnTargets :
              LevelFor(verbosity, SomeTarget(t)) = TableRow(options.verbose)[2]

\* init ran with more than five -v
C8_Witness ==
    nInit > 0 /\ options.verbose > 5 /\ Len(verbosity) >= 2

LastResult(rs) == IF rs = <<>> THEN "none" ELSE rs[Len(rs)]

Malformed(s) == \E i \in 1..Len(s) : s[i].kind \in {"badlevel", "toomany"}

\* C10: an init call with a malformed expression returns the parse error and
\* leaves the flush guard, the flame files, the global subscriber and the
\* logger as they were; an init call with the empty expression never returns
\* the parse error and its filter is the verbosity filter.
C10_ParseErrorBeforePipeline ==
    [][ nInit' = nInit + 1 =>
          /\ Malformed(options'.log_filter) =>
                /\ LastResult(initResults') = "ErrParse"
                /\ UNCHANGED <<FLAME_FLUSH_GUARD, flameOpens, subscriber, logTracer, dispatched>>
          /\ options'.log_filter = <<>> =>
                /\ LastResult(initResults') # "ErrParse"
                /\ log_filter'.ok
                /\ targets' = verbosity' ]_vars

\* an init with a malformed expression failed, the next one succeeded
C10_Witness ==
    /\ Len(initResults) = 2
    /\ initResults[1] = "ErrParse"
    /\ initResults[2] = "Ok"
    /\ subscriber.installed

\* C4 as stated: the flame sink is flushed at most once in total.
C4_FlushedAtMostOnce ==
    flushCount <= 1

\* C4 amended: every shutdown call flushes the sink when init opened one, so
\* n calls flush n times; a shutdown that directly follows a successful
\* shutdown writes nothing, there being nothing buffered; with no sink
\* (no trace_flame, or no init) shutdown flushes nothing and returns Ok.
C4_FlushPerShutdown ==
    [][ nShutdown' = nShutdown + 1 =>
          /\ FLAME_FLUSH_GUARD = "Some" => flushCount' = flushCount + 1
          /\ FLAME_FLUSH_GUARD # "Some" =>
                /\ flushCount' = flushCount
                /\ flameFile' = flameFile
                /\ shutdownResult' = "Ok"
          /\ (lastOp = "shutdown" /\ shutdownResult = "Ok") => flameFile' = flameFile ]_vars

\* shutdown ran twice in a row on an open sink and flushed it both times
C4_Witness ==
    /\ FLAME_FLUSH_GUARD = "Some"
    /\ nShutdown >= 2
    /\ flushCount >= 2
    /\ lastOp = "shutdown"
    /\ shutdownResult = "Ok"

InvokedNames(d) == [i \in 1..Len(d.invoked) |-> d.invoked[i].layer]

NoPanic(d) == \A i \in 1..Len(d.invoked) : d.invoked[i].outcome # "Panic"

IsFiltered(name) == name \in {"otlp", "log_format"}

AcceptsDispatched(ly) ==
    ly.filtered /\ would_enable(subscriber.filter, dispatched.event.target,
                                dispatched.event.level)

Formatted == fmtOut.status = "Ok"

HasKey(k) == \E i \in 1..Len(fmtOut.keys) : fmtOut.keys[i] = k

NoExternalIds ==
    \A i \in 1..Len(spans) : ~spans[i].trace_id.some /\ ~spans[i].span_id.some

\* C3 as stated: with no span carrying an external trace or span id, the
\* line has neither a TraceId nor a SpanId key.
C3_NoIdKeysWithoutExternalIds ==
    (Formatted /\ NoExternalIds) => (~HasKey("TraceId") /\ ~HasKey("SpanId"))

\* C3 amended: with no span carrying an external id the line has no TraceId
\* key; it has no SpanId key when no span is active, and when spans are
\* active its SpanId is the tracing id of the event's span.  A key appears
\* only when its id was resolved.
C3_SpanIdFallsBack ==
    Formatted =>
        /\ NoExternalIds =>
              /\ ~HasKey("TraceId")
              /\ HasKey("SpanId") <=> spans # <<>>
              /\ spans # <<>> =>
                    fmtOut.SpanId = Hex(spans[ParentOrCurrent(spans, fmtIn.ev)].id, 16)
        /\ HasKey("TraceId") => \E i \in 1..Len(spans) : spans[i].trace_id.some
        /\ HasKey("SpanId") => spans # <<>>

\* an event in a span without external ids was written with a SpanId
C3_Witness ==
    Formatted /\ NoExternalIds /\ spans # <<>> /\ HasKey("SpanId")

\* the spans of the event's scope that carry an external trace id
Carriers ==
    { i \in 1..ScopeStart(spans, fmtIn.ev) : spans[i].trace_id.some }

Innermost(S) == CHOOSE i \in S : \A j \in S : j <= i

Outermost(S) == CHOOSE i \in S : \A j \in S : i <= j

SeveralTraceIds ==
    \E i, j \in Carriers : spans[i].trace_id # spans[j].trace_id

\* C5 as stated: of several different trace ids in the chain the outermost
\* span's is emitted; with none in the chain no TraceId is emitted.
C5_OutermostTraceId ==
    Formatted =>
        IF Carriers = {} THEN ~HasKey("TraceId")
        ELSE /\ HasKey("TraceId")
             /\ fmtOut.TraceId = Hex(spans[Outermost(Carriers)].trace_id.v, 32)

\* C5 amended: of several different trace ids in the chain the innermost
\* span's is emitted; with none in the chain no TraceId is emitted.
C5_InnermostOfSeveral ==
    Formatted =>
        /\ SeveralTraceIds =>
              /\ HasKey("TraceId")
              /\ fmtOut.TraceId = Hex(spans[Innermost(Carriers)].trace_id.v, 32)
        /\ Carriers = {} => ~HasKey("TraceId")

\* an event was written whose chain carries two different trace ids
C5_Witness ==
    Formatted /\ SeveralTraceIds

\* C6: the trace id emitted is that of the nearest span of the chain that
\* has one, however many spans without one lie between it and the event.
C6_NearestAncestorTraceId ==
    Formatted =>
        \A i \in Carriers :
            (\A j \in (i + 1)..ScopeStart(spans, fmtIn.ev) : ~spans[j].trace_id.some)
                => /\ HasKey("TraceId")
                   /\ fmtOut.TraceId = Hex(spans[i].trace_id.v, 32)

\* the event's own span has no trace id, an ancestor has, TraceId is written
C6_Witness ==
    /\ Formatted
    /\ ScopeStart(spans, fmtIn.ev) > 1
    /\ ~spans[ScopeStart(spans, fmtIn.ev)].trace_id.some
    /\ Carriers # {}
    /\ HasKey("TraceId")

\* the attributes before the span's fields are merged (otlp_format.rs 98-138)
PreMerge ==
    ExtendWithFields([attributes |-> SourceAttributes(fmtIn.ev, fmtIn.thread), body |-> ""],
                     MapOrder(fmtIn.ev.fields)).attributes

\* the fields of the span merged at otlp_format.rs 146-155, {} if none are
MergedSpanMap ==
    LET b == SpanOfBoundary(spans, fmtIn.ev)
    IN  IF b # 0 /\ spans[b].formatted.kind = "object" THEN spans[b].formatted.map ELSE {}

\* C2 as stated: a span field does not override an attribute of the same
\* name that the source location, the thread or the event's fields gave.
C2_SpanFieldsDoNotOverride ==
    Formatted =>
        \A k \in Keys(MergedSpanMap) \cap Keys(PreMerge) :
            Get(fmtOut.Attributes, k) = Get(PreMerge, k)

\* C2 amended: every field of the span is in Attributes with the span's
\* value, overriding an attribute of the same name from the source location,
\* the thread or the event's fields; the other attributes are unchanged.
C2_SpanFieldsOverride ==
    Formatted =>
        /\ Keys(fmtOut.Attributes) = Keys(PreMerge) \cup Keys(MergedSpanMap)
        /\ \A k \in Keys(MergedSpanMap) :
              Get(fmtOut.Attributes, k) = Get(MergedSpanMap, k)
        /\ \A k \in Keys(PreMerge) \ Keys(MergedSpanMap) :
              Get(fmtOut.Attributes, k) = Get(PreMerge, k)

\* a span boundary was written whose span has a field named like an
\* attribute of the event, with another value
C2_Witness ==
    /\ Formatted
    /\ fmtIn.ev.is_span
    /\ \E k \in Keys(MergedSpanMap) \cap Keys(PreMerge) :
          Get(MergedSpanMap, k) # Get(PreMerge, k)

EventFields == Range(fmtIn.ev.fields)

LogKeys == {"log.file", "log.line", "log.module_path", "log.target"}

\* the attribute key the claim gives for a `log.*` field
CodeKey(k) ==
    CASE k = "log.file"        -> "code.filepath"
      [] k = "log.line"        -> "code.lineno"
      [] k = "log.module_path" -> "code.namespace"
      [] OTHER                 -> "(dropped)"

\* the keys the span merge wrote last
FromSpan(k) == k \in Keys(MergedSpanMap)

BodyOfMessage ==
    /\ "message" \notin Keys(fmtOut.Attributes) \/ FromSpan("message")
    /\ \A f \in EventFields :
          (f.k = "message" /\ f.v.t = "str") => fmtOut.Body = f.v.s

LogFieldsRenamed ==
    /\ \A k \in LogKeys : k \notin Keys(fmtOut.Attributes) \/ FromSpan(k)
    /\ \A f \in EventFields :
          (f.k \in LogKeys \ {"log.target"} /\ ~FromSpan(CodeKey(f.k)))
              => /\ CodeKey(f.k) \in Keys(fmtOut.Attributes)
                 /\ Get(fmtOut.Attributes, CodeKey(f.k)) = f.v

\* C7 as stated: message is the Body and no attribute, the log.* fields are
\* renamed or dropped, every other field keeps its name and its value, also
\* against a source-location or thread attribute of the same name.
C7_EveryOtherFieldKeepsValue ==
    Formatted =>
        /\ BodyOfMessage
        /\ LogFieldsRenamed
        /\ \A f \in EventFields :
              (f.k \notin LogKeys \cup {"message"} /\ ~FromSpan(f.k))
                  => /\ f.k \in Keys(fmtOut.Attributes)
                     /\ Get(fmtOut.Attributes, f.k) = f.v

\* C7 amended: as stated, except that a field named code.filepath,
\* code.lineno or code.namespace gives way to the log.file, log.line or
\* log.module_path field of the same event, whose value is then the one
\* under that key; a message that is not a string gives the empty Body.
C7_LogFieldWinsOverCodeField ==
    Formatted =>
        /\ BodyOfMessage
        /\ (\A f \in EventFields : f.k = "message" => f.v.t # "str") => fmtOut.Body = ""
        /\ LogFieldsRenamed
        /\ \A f \in EventFields :
              (f.k \notin LogKeys \cup {"message"} /\ ~FromSpan(f.k))
                  => /\ f.k \in Keys(fmtOut.Attributes)
                     /\ Get(fmtOut.Attributes, f.k) =
                           IF \E g \in EventFields : g.k \in LogKeys /\ CodeKey(g.k) = f.k
                           THEN (CHOOSE g \in EventFields :
                                    g.k \in LogKeys /\ CodeKey(g.k) = f.k).v
                           ELSE f.v

\* an event with both log.file and code.filepath, of different values, was
\* written
C7_Witness ==
    /\ Formatted
    /\ \E f, g \in EventFields :
          f.k = "log.file" /\ g.k = "code.filepath" /\ f.v # g.v
====
